---- MODULE Spec2Model ----
(***************************************************************************)
(* Model of the websocket chat router of src/main.py: the ConnectionManager *)
(* registry (websockets, usernames_to_websockets), its delivery operations  *)
(* (broadcast, send_private_message) and the per-connection endpoint        *)
(* coroutine `websocket`.  Coroutines are split into steps at the           *)
(* `await ...send_text(...)` suspension points; everything between two      *)
(* suspension points runs atomically on the event loop.                     *)
(***************************************************************************)
EXTENDS Integers, Sequences, FiniteSets, TLC

\* ---------------------------------------------------------------- bounds
MaxConns == 2      \* connection attempts (WebSocket objects) ever made
MaxMsgs  == 2      \* text frames the peers send in total
MaxInbox == 1      \* frames a peer leaves unreceived when it goes

Handles    == 1..MaxConns
Users      == {"alice", "bob"}            \* rows of the users table
Recipients == Users \cup {"carol"}        \* carol never connects
Rooms      == {"lobby", "den"}
None       == "None"

\* ------------------------------------------------------------- dict helpers
\* A room's dict[WebSocket, str] keeps insertion order: a sequence of entries.
Entry(k, v) == [sock |-> k, name |-> v]

DictKeys(d) == {d[i].sock : i \in DOMAIN d}

DictValues(d) == {d[i].name : i \in DOMAIN d}

DictList(d) == [i \in DOMAIN d |-> d[i].sock]

DictGet(d, k) == (CHOOSE e \in {d[i] : i \in DOMAIN d} : e.sock = k).name

DictSet(d, k, v) ==
    IF k \in DictKeys(d)
    THEN [i \in DOMAIN d |-> IF d[i].sock = k THEN Entry(k, v) ELSE d[i]]
    ELSE Append(d, Entry(k, v))

DictPop(d, k) == SelectSeq(d, LAMBDA e : e.sock # k)

MapPut(f, k, v) == [x \in (DOMAIN f) \cup {k} |-> IF x = k THEN v ELSE f[x]]

MapDel(f, k) == [x \in (DOMAIN f) \ {k} |-> f[x]]

\* The registry: ConnectionManager's two dicts.
Reg(ws, names) == [websockets |-> ws, usernames_to_websockets |-> names]

\* ------------------------------------------------------------ the registry
\* ConnectionManager.connect, after the accept.
connect(reg, websocket, username, room) ==
    LET ws0 == IF room \notin DOMAIN reg.websockets
               THEN MapPut(reg.websockets, room, << >>)
               ELSE reg.websockets
    IN Reg(MapPut(ws0, room, DictSet(ws0[room], websocket, username)),
           MapPut(reg.usernames_to_websockets, username, websocket))

\* disconnect, had it forgotten lines 33-34: the username stays mapped.
disconnect_keeps_name(reg, websocket, room) ==
    IF room \in DOMAIN reg.websockets /\ websocket \in DictKeys(reg.websockets[room])
    THEN LET members == DictPop(reg.websockets[room], websocket)
         IN Reg(IF members = << >>
                THEN MapDel(reg.websockets, room)
                ELSE MapPut(reg.websockets, room, members),
                reg.usernames_to_websockets)
    ELSE reg

\* disconnect, had it forgotten lines 36-37: an emptied room stays.
disconnect_keeps_room(reg, websocket, room) ==
    IF room \in DOMAIN reg.websockets /\ websocket \in DictKeys(reg.websockets[room])
    THEN LET username == DictGet(reg.websockets[room], websocket)
             members  == DictPop(reg.websockets[room], websocket)
             names    == IF username \in DOMAIN reg.usernames_to_websockets
                         THEN MapDel(reg.usernames_to_websockets, username)
                         ELSE reg.usernames_to_websockets
         IN Reg(MapPut(reg.websockets, room, members), names)
    ELSE reg

\* disconnect, had it taken the oldest entry of the room out rather than the
\* socket's own and without asking whether the socket is there.
disconnect_oldest(reg, websocket, room) ==
    IF room \in DOMAIN reg.websockets /\ reg.websockets[room] # << >>
    THEN LET gone     == Head(reg.websockets[room])
             members  == Tail(reg.websockets[room])
             names    == IF gone.name \in DOMAIN reg.usernames_to_websockets
                         THEN MapDel(reg.usernames_to_websockets, gone.name)
                         ELSE reg.usernames_to_websockets
         IN Reg(IF members = << >>
                THEN MapDel(reg.websockets, room)
                ELSE MapPut(reg.websockets, room, members),
                names)
    ELSE reg

\* ConnectionManager.disconnect.
disconnect(reg, websocket, room) ==
    IF room \in DOMAIN reg.websockets /\ websocket \in DictKeys(reg.websockets[room])
    THEN LET username == DictGet(reg.websockets[room], websocket)
             members  == DictPop(reg.websockets[room], websocket)
             names    == IF username \in DOMAIN reg.usernames_to_websockets
                         THEN MapDel(reg.usernames_to_websockets, username)
                         ELSE reg.usernames_to_websockets
         IN Reg(IF members = << >>
                THEN MapDel(reg.websockets, room)
                ELSE MapPut(reg.websockets, room, members),
                names)
    ELSE reg

\* self.usernames_to_websockets.get(recipient), as the set of what it finds.
resolve(reg, recipient) ==
    IF recipient \in DOMAIN reg.usernames_to_websockets
    THEN {reg.usernames_to_websockets[recipient]}
    ELSE {}

\* ------------------------------------------------------------ the transport
\* WebSocket.send_text on a connection that cannot take it raises: RuntimeError
\* when the socket is already marked closed, WebSocketDisconnect when the write
\* itself fails.  Which of the two is raised depends on timing.
SendFaults == {"RuntimeError", "WebSocketDisconnect"}

\* Outcome of a delivery call: the (flag, text) tuple it returns, the text
\* named by its kind, and the sockets it called send_text on.
Outcome(reg, ok, kind, to) == [reg |-> reg, ok |-> ok, kind |-> kind, to |-> to]

\* ----------------------------------------------------------------- delivery
\* send_private_message, had line 44 joined its two tests with `and`.
send_private_message_and(reg, recipient, sender, room, up, exc) ==
    IF room \notin DOMAIN reg.websockets
    THEN Outcome(reg, FALSE, "RoomNotFound", {})
    ELSE IF recipient \notin DictValues(reg.websockets[room])
            /\ sender \notin DictValues(reg.websockets[room])
    THEN Outcome(reg, FALSE, "NotInRoom", {})
    ELSE IF recipient \in DOMAIN reg.usernames_to_websockets
    THEN LET websocket == reg.usernames_to_websockets[recipient]
         IN IF websocket \in up
            THEN Outcome(reg, TRUE, "Ok", {websocket})
            ELSE IF exc = "RuntimeError"
            THEN Outcome(disconnect(reg, websocket, room), FALSE, "RecipientOffline", {websocket})
            ELSE Outcome(disconnect(reg, websocket, room), FALSE, "SendError", {websocket})
    ELSE Outcome(reg, FALSE, "RecipientOffline", {})

\* send_private_message, had a failed membership test reaped the socket the
\* sender's name resolves to.
send_private_message_reaps_sender(reg, recipient, sender, room, up, exc) ==
    IF room \notin DOMAIN reg.websockets
    THEN Outcome(reg, FALSE, "RoomNotFound", {})
    ELSE IF recipient \notin DictValues(reg.websockets[room])
            \/ sender \notin DictValues(reg.websockets[room])
    THEN Outcome(IF sender \in DOMAIN reg.usernames_to_websockets
                 THEN disconnect(reg, reg.usernames_to_websockets[sender], room)
                 ELSE reg,
                 FALSE, "NotInRoom", {})
    ELSE IF recipient \in DOMAIN reg.usernames_to_websockets
    THEN LET websocket == reg.usernames_to_websockets[recipient]
         IN IF websocket \in up
            THEN Outcome(reg, TRUE, "Ok", {websocket})
            ELSE IF exc = "RuntimeError"
            THEN Outcome(disconnect(reg, websocket, room), FALSE, "RecipientOffline", {websocket})
            ELSE Outcome(disconnect(reg, websocket, room), FALSE, "SendError", {websocket})
    ELSE Outcome(reg, FALSE, "RecipientOffline", {})

\* ConnectionManager.send_private_message; `up` is the set of sockets on which
\* send_text succeeds, `exc` the exception a failing send_text raises.
send_private_message(reg, recipient, sender, room, up, exc) ==
    IF room \notin DOMAIN reg.websockets
    THEN Outcome(reg, FALSE, "RoomNotFound", {})
    ELSE IF recipient \notin DictValues(reg.websockets[room])
            \/ sender \notin DictValues(reg.websockets[room])
    THEN Outcome(reg, FALSE, "NotInRoom", {})
    ELSE IF recipient \in DOMAIN reg.usernames_to_websockets
    THEN LET websocket == reg.usernames_to_websockets[recipient]
         IN IF websocket \in up
            THEN Outcome(reg, TRUE, "Ok", {websocket})
            ELSE IF exc = "RuntimeError"
            THEN Outcome(disconnect(reg, websocket, room), FALSE, "RecipientOffline", {websocket})
            ELSE Outcome(disconnect(reg, websocket, room), FALSE, "SendError", {websocket})
    ELSE Outcome(reg, FALSE, "RecipientOffline", {})

\* broadcast's loop, had its handlers returned without self.disconnect.
broadcast_send_no_reap(reg, sockets, room, up) ==
    IF sockets = << >>
    THEN [out |-> Outcome(reg, TRUE, "Ok", {}), rest |-> << >>]
    ELSE LET socket == Head(sockets)
         IN IF socket \in up
            THEN [out |-> Outcome(reg, TRUE, "Ok", {socket}), rest |-> Tail(sockets)]
            ELSE [out |-> Outcome(reg, FALSE, "SendError", {socket}), rest |-> << >>]

\* broadcast's loop, had its handlers reaped and then reported success.
broadcast_send_hides_failure(reg, sockets, room, up) ==
    IF sockets = << >>
    THEN [out |-> Outcome(reg, TRUE, "Ok", {}), rest |-> << >>]
    ELSE LET socket == Head(sockets)
         IN IF socket \in up
            THEN [out |-> Outcome(reg, TRUE, "Ok", {socket}), rest |-> Tail(sockets)]
            ELSE [out |-> Outcome(disconnect(reg, socket, room), TRUE, "Ok", {socket}),
                  rest |-> << >>]

\* broadcast's loop, had its handlers reaped and gone on to the next socket.
broadcast_send_continues(reg, sockets, room, up) ==
    IF sockets = << >>
    THEN [out |-> Outcome(reg, TRUE, "Ok", {}), rest |-> << >>]
    ELSE LET socket == Head(sockets)
         IN IF socket \in up
            THEN [out |-> Outcome(reg, TRUE, "Ok", {socket}), rest |-> Tail(sockets)]
            ELSE [out |-> Outcome(disconnect(reg, socket, room), FALSE, "SendError", {socket}),
                  rest |-> Tail(sockets)]

\* ConnectionManager.broadcast, one turn of the for loop (lines 72-85) over
\* the sockets of the snapshot still to serve.  `rest` is what the loop has
\* left; it is empty once the call returned, and `out` is then what it
\* returned.
broadcast_send(reg, sockets, room, up) ==
    IF sockets = << >>
    THEN [out |-> Outcome(reg, TRUE, "Ok", {}), rest |-> << >>]
    ELSE LET socket == Head(sockets)
         IN IF socket \in up
            THEN [out |-> Outcome(reg, TRUE, "Ok", {socket}), rest |-> Tail(sockets)]
            ELSE [out |-> Outcome(disconnect(reg, socket, room), FALSE, "SendError", {socket}),
                  rest |-> << >>]

\* broadcast, had line 72 listed the sockets of every room.
broadcast_all_rooms(reg, room, up) ==
    IF room \notin DOMAIN reg.websockets
    THEN [out |-> Outcome(reg, FALSE, "RoomNotFound", {}), rest |-> << >>]
    ELSE broadcast_send(reg,
             (IF "lobby" \in DOMAIN reg.websockets
              THEN DictList(reg.websockets["lobby"]) ELSE << >>)
             \o (IF "den" \in DOMAIN reg.websockets
                 THEN DictList(reg.websockets["den"]) ELSE << >>),
             room, up)

\* ConnectionManager.broadcast from its call to its first send_text: the
\* room check, the snapshot list(self.websockets[room].keys()) and the
\* first turn of the loop.
broadcast(reg, room, up) ==
    IF room \notin DOMAIN reg.websockets
    THEN [out |-> Outcome(reg, FALSE, "RoomNotFound", {}), rest |-> << >>]
    ELSE broadcast_send(reg, DictList(reg.websockets[room]), room, up)

\* ---------------------------------------------------------------- envelopes
\* The values of the "data" key.  The endpoint copies the value into the
\* message and looks at it nowhere else, so one value stands for all.
Data == {"hi"}

\* An inbound text frame, by what json.loads and the subscripts make of it.
Frame(json, obj, keys, type, recipient, data) ==
    [json |-> json, obj |-> obj, keys |-> keys, type |-> type, recipient |-> recipient,
     data |-> data]

NotJson   == Frame(FALSE, FALSE, {}, None, None, None)       \* not-json
Scalar    == Frame(TRUE, FALSE, {}, None, None, None)        \* 5, "x", [1], null
NoData    == Frame(TRUE, TRUE, {"type"}, "broadcast", None, None)
NoType    == Frame(TRUE, TRUE, {"data"}, None, None, "hi")
NoRecip   == Frame(TRUE, TRUE, {"type", "data"}, "private", None, "hi")
Shout     == Frame(TRUE, TRUE, {"type", "data"}, "shout", None, "hi")
Broadcast(d) == Frame(TRUE, TRUE, {"type", "data"}, "broadcast", None, d)
Private(u, d) == Frame(TRUE, TRUE, {"type", "data", "recipient"}, "private", u, d)

Frames == {NotJson, Scalar, NoData, NoType, NoRecip, Shout}
              \cup {Broadcast(d) : d \in Data}
              \cup {Private(u, d) : u \in Recipients, d \in Data}

\* The chat message of line 117: an f-string that puts a literal word (the
\* Russian for "User", written here in Latin letters) and a space before the
\* username, then ": " and the data.  Kept with the data it was made from.
Message(data, text) == [data |-> data, text |-> text]

NoMessage == Message(None, None)

completed_message(username, data) ==
    Message(data, "Polzovatel " \o username \o ": " \o data)

\* What lines 116-125 of the endpoint make of a frame: the exception raised
\* before any dispatch, or the branch taken.
decode(frame) ==
    IF ~frame.json THEN "JSONDecodeError"
    ELSE IF ~frame.obj THEN "TypeError"
    ELSE IF "data" \notin frame.keys THEN "KeyError"
    ELSE IF "type" \notin frame.keys THEN "KeyError"
    ELSE IF frame.type = "broadcast" THEN "broadcast"
    ELSE IF frame.type = "private"
    THEN (IF "recipient" \notin frame.keys THEN "KeyError" ELSE "private")
    ELSE "ignored"

\* ------------------------------------------------------------------ tokens
\* A bearer token, by what jwt.decode and the users table make of it.
Token(valid, username) == [valid |-> valid, username |-> username]

Tokens == {Token(TRUE, u) : u \in Users}
             \cup {Token(FALSE, "alice"), Token(TRUE, None), Token(TRUE, "carol")}

\* The Authorization header of a handshake: absent, of another scheme, or
\* a bearer token.
Header(scheme, token) == [scheme |-> scheme, token |-> token]

Headers == {Header("missing", Token(FALSE, None)), Header("basic", Token(FALSE, None))}
              \cup {Header("bearer", t) : t \in Tokens}

\* No handshake: the step looked at no header.
NoHeader == Header("none", Token(FALSE, None))

\* decode_token, had it trusted the token's username without the query of
\* lines 63-67.
decode_token_no_lookup(token) ==
    IF ~token.valid THEN None
    ELSE IF token.username = None THEN None
    ELSE token.username

\* auth.decode_token: the user's name, or None for the HTTPException.
decode_token(token) ==
    IF ~token.valid THEN None
    ELSE IF token.username = None THEN None
    ELSE IF token.username \notin Users THEN None
    ELSE token.username

\* ------------------------------------------------------------------- state
VARIABLES
    websockets,                 \* manager.websockets: room -> {socket: username}
    usernames_to_websockets,    \* manager.usernames_to_websockets
    conns,                      \* WebSocket objects created so far
    pc,                         \* where each endpoint coroutine stands
    username,                   \* its user.username
    room,                       \* its room path parameter
    sockets,                    \* the sockets its running broadcast has left
    snapshot,                   \* the list its running broadcast iterates
    message,                    \* the chat message its running broadcast sends
    wire,                       \* the chat message the last step passed to send_text
    offered,                    \* the Authorization header the last step looked at
    alive,                      \* whether the peer still holds the connection
    inbox,                      \* frames a peer that is gone left to be received
    sent,                       \* frames the peers have sent in total
    last                        \* what the last step did

vars == <<websockets, usernames_to_websockets, conns, pc, username, room,
          sockets, snapshot, message, wire, offered, alive, inbox, sent, last>>

Active     == {"receive", "broadcast"}
Terminated == {"closed", "crashed", "rejected"}

registry == Reg(websockets, usernames_to_websockets)

\* Sockets on which send_text succeeds: those whose peer is still there.
Up == {h \in Handles : alive[h]}

\* What a step did: the operation, the endpoint that ran it, the recipient
\* named by the frame it handled, the outcome of the delivery call it
\* completed (ok, kind), the sockets on which it called send_text with a chat
\* message (to), and what became of the error reply ("none" when none was
\* due).
Did(op, h, recipient, ok, kind, to, replied) ==
    [op |-> op, h |-> h, recipient |-> recipient, ok |-> ok, kind |-> kind,
     to |-> to, replied |-> replied]

Quiet == Did("quiet", 0, None, TRUE, None, {}, "none")

Init ==
    /\ websockets = << >>
    /\ usernames_to_websockets = << >>
    /\ conns = 0
    /\ pc = [h \in Handles |-> "new"]
    /\ username = [h \in Handles |-> None]
    /\ room = [h \in Handles |-> None]
    /\ sockets = [h \in Handles |-> << >>]
    /\ snapshot = [h \in Handles |-> << >>]
    /\ message = [h \in Handles |-> NoMessage]
    /\ wire = NoMessage
    /\ offered = NoHeader
    /\ alive = [h \in Handles |-> FALSE]
    /\ inbox = [h \in Handles |-> 0]
    /\ sent = 0
    /\ last = Quiet

\* No handshake was accepted so far.  The two users, and the two rooms, are
\* interchangeable: the first accepted handshake is taken to be alice's, to
\* the lobby.
Fresh == \A h \in Handles : pc[h] \in {"new", "rejected"}

SetRegistry(reg) ==
    /\ websockets' = reg.websockets
    /\ usernames_to_websockets' = reg.usernames_to_websockets

\* ----------------------------------------------------------------- actions
\* The endpoint from the handshake to manager.connect (lines 91-110).
ws_open(header, r) ==
    /\ conns < MaxConns
    /\ LET h == conns + 1
           user == IF header.scheme = "bearer" THEN decode_token(header.token) ELSE None
       IN /\ conns' = h
          /\ IF header.scheme # "bearer" \/ user = None
             THEN /\ pc' = [pc EXCEPT ![h] = "rejected"]
                  /\ last' = Did("reject", h, None, TRUE, None, {}, "none")
                  /\ UNCHANGED <<websockets, usernames_to_websockets, username, room, alive>>
             ELSE /\ pc' = [pc EXCEPT ![h] = "receive"]
                  /\ alive' = [alive EXCEPT ![h] = TRUE]
                  /\ username' = [username EXCEPT ![h] = user]
                  /\ room' = [room EXCEPT ![h] = r]
                  /\ SetRegistry(connect(registry, h, user, r))
                  /\ last' = Did("connect", h, None, TRUE, None, {}, "none")
    /\ wire' = NoMessage
    /\ offered' = header
    /\ UNCHANGED <<sockets, snapshot, message, inbox, sent>>

\* The peer closes, or the network drops the connection, with `k` frames of
\* the peer still waiting to be received.
peer_drop(h, k) ==
    /\ pc[h] \in Active
    /\ alive[h]
    /\ sent + k <= MaxMsgs
    /\ alive' = [alive EXCEPT ![h] = FALSE]
    /\ inbox' = [inbox EXCEPT ![h] = k]
    /\ sent' = sent + k
    /\ last' = Quiet
    /\ UNCHANGED <<websockets, usernames_to_websockets, conns, pc, username, room,
                   sockets, snapshot, message>>
    /\ wire' = NoMessage
    /\ offered' = NoHeader

\* The endpoint's error reply (lines 122, 127, 132, 137): a send_text on its
\* own socket, issued in the same turn as the failure it reports.  A failing
\* send_text raises `exc`, which only the handler of line 140 may catch.
\* Gives the registry, the endpoint's next place and what became of the reply.
error_reply(reg, h, r, up, exc) ==
    IF h \in up
    THEN [reg |-> reg, pc |-> "receive", replied |-> "sent"]
    ELSE IF exc = "WebSocketDisconnect"
    THEN [reg |-> disconnect(reg, h, r), pc |-> "closed", replied |-> "failed"]
    ELSE [reg |-> reg, pc |-> "crashed", replied |-> "failed"]

\* When the endpoint coroutine of `h` ends, the server closes the socket:
\* the peer is cut off and the frames it left are dropped.  `left` is the
\* number of frames waiting on `h` otherwise.
Closing(h, left) ==
    /\ alive' = [alive EXCEPT ![h] = @ /\ pc'[h] \in Active]
    /\ inbox' = [inbox EXCEPT ![h] = IF pc'[h] \in Active THEN left ELSE 0]

\* The exceptions a send_text on the sockets `to` may raise: none when all
\* of them take the frame.
Raised(to) == IF to \subseteq Up THEN {None} ELSE SendFaults

\* The endpoint after a delivery call returned `out` (lines 121-122, 126-127).
AfterDelivery(h, op, recipient, out) ==
    IF out.ok
    THEN /\ SetRegistry(out.reg)
         /\ pc' = [pc EXCEPT ![h] = "receive"]
         /\ last' = Did(op, h, recipient, TRUE, out.kind, out.to, "none")
    ELSE \E exc \in Raised({h}) :
            LET end == error_reply(out.reg, h, room[h], Up, exc)
            IN /\ SetRegistry(end.reg)
               /\ pc' = [pc EXCEPT ![h] = end.pc]
               /\ last' = Did(op, h, recipient, FALSE, out.kind, out.to, end.replied)

\* The endpoint after a decoding exception (lines 130-138).
AfterDecodeError(h, kind) ==
    \E exc \in Raised({h}) :
        LET end == error_reply(registry, h, room[h], Up, exc)
        IN /\ SetRegistry(end.reg)
           /\ pc' = [pc EXCEPT ![h] = end.pc]
           /\ last' = Did("decode", h, None, FALSE, kind, {}, end.replied)

\* The list broadcast iterates: list(self.websockets[room].keys()) (line 72).
keys(reg, r) ==
    IF r \in DOMAIN reg.websockets THEN DictList(reg.websockets[r]) ELSE << >>

\* The chat message a delivery call passed to send_text, if it called it.
Sent(out, text) == wire' = IF out.to = {} THEN NoMessage ELSE text

\* The endpoint while manager.broadcast runs on: `turn` is one turn of its
\* loop over the list `snap`, sending `text`.
DuringBroadcast(h, turn, snap, text) ==
    /\ Sent(turn.out, text)
    /\ IF turn.rest = << >>
       THEN /\ AfterDelivery(h, "broadcast", None, turn.out)
            /\ sockets' = [sockets EXCEPT ![h] = << >>]
            /\ snapshot' = [snapshot EXCEPT ![h] = << >>]
            /\ message' = [message EXCEPT ![h] = NoMessage]
       ELSE /\ SetRegistry(turn.out.reg)
            /\ last' = Did("broadcast_send", h, None, TRUE, None, turn.out.to, "none")
            /\ pc' = [pc EXCEPT ![h] = "broadcast"]
            /\ sockets' = [sockets EXCEPT ![h] = turn.rest]
            /\ snapshot' = [snapshot EXCEPT ![h] = snap]
            /\ message' = [message EXCEPT ![h] = text]

\* One turn of the receive loop, from receive_text to the first send_text
\* that suspends it (lines 115-138).
ws_receive(h, frame) ==
    /\ pc[h] = "receive"
    /\ IF alive[h]
       THEN sent < MaxMsgs /\ sent' = sent + 1
       ELSE inbox[h] > 0 /\ UNCHANGED sent
    /\ LET what == decode(frame)
       IN CASE what = "JSONDecodeError" ->
                 /\ AfterDecodeError(h, "InvalidJson")
                 /\ wire' = NoMessage
                 /\ UNCHANGED <<sockets, snapshot, message>>
            [] what = "KeyError" ->
                 /\ AfterDecodeError(h, "MissingField")
                 /\ wire' = NoMessage
                 /\ UNCHANGED <<sockets, snapshot, message>>
            [] what = "TypeError" ->
                 /\ pc' = [pc EXCEPT ![h] = "crashed"]
                 /\ last' = Did("decode", h, None, FALSE, "TypeError", {}, "none")
                 /\ wire' = NoMessage
                 /\ UNCHANGED <<websockets, usernames_to_websockets, sockets, snapshot, message>>
            [] what = "ignored" ->
                 /\ last' = Did("ignore", h, None, TRUE, None, {}, "none")
                 /\ wire' = NoMessage
                 /\ UNCHANGED <<websockets, usernames_to_websockets, sockets, snapshot,
                                message, pc>>
            [] what = "broadcast" ->
                 DuringBroadcast(h, broadcast(registry, room[h], Up), keys(registry, room[h]),
                                 completed_message(username[h], frame.data))
            [] what = "private" ->
                 /\ \E exc \in Raised(resolve(registry, frame.recipient)) :
                        LET out == send_private_message(registry, frame.recipient,
                                                        username[h], room[h], Up, exc)
                        IN /\ AfterDelivery(h, "private", frame.recipient, out)
                           /\ Sent(out, completed_message(username[h], frame.data))
                 /\ UNCHANGED <<sockets, snapshot, message>>
    /\ Closing(h, IF alive[h] THEN 0 ELSE inbox[h] - 1)
    /\ offered' = NoHeader
    /\ UNCHANGED <<conns, username, room>>

\* manager.broadcast resumes after a send_text and serves the next socket of
\* its snapshot (lines 72-85), up to the endpoint's error reply if it fails.
ws_broadcast_next(h) ==
    /\ pc[h] = "broadcast"
    /\ DuringBroadcast(h, broadcast_send(registry, sockets[h], room[h], Up), snapshot[h],
                       message[h])
    /\ Closing(h, inbox[h])
    /\ offered' = NoHeader
    /\ UNCHANGED <<conns, username, room, sent>>

\* receive_text raises WebSocketDisconnect once the peer is gone and its
\* frames are consumed (lines 140-142).
ws_disconnected(h) ==
    /\ pc[h] = "receive"
    /\ inbox[h] = 0
    /\ ~alive[h]
    /\ pc' = [pc EXCEPT ![h] = "closed"]
    /\ SetRegistry(disconnect(registry, h, room[h]))
    /\ last' = Did("disconnect", h, None, TRUE, None, {}, "none")
    /\ wire' = NoMessage
    /\ offered' = NoHeader
    /\ UNCHANGED <<conns, username, room, sockets, snapshot, message, alive, inbox, sent>>

Next ==
    \/ \E header \in Headers, r \in Rooms :
           /\ Fresh => (header.token.username # "bob" /\ r = "lobby")
           /\ ws_open(header, r)
    \/ \E h \in Handles, k \in 0..MaxInbox : peer_drop(h, k)
    \/ \E h \in Handles, frame \in Frames : ws_receive(h, frame)
    \/ \E h \in Handles : ws_broadcast_next(h)
    \/ \E h \in Handles : ws_disconnected(h)

Spec == Init /\ [][Next]_vars

\* ============================================================== properties
\* Sockets registered in some room.
Members == UNION {DictKeys(websockets[r]) : r \in DOMAIN websockets}

\* Sockets some identity resolves to.
Resolved == {usernames_to_websockets[u] : u \in DOMAIN usernames_to_websockets}

\* The usernames registered in room r, none if the room is not there.
NamesIn(r) == IF r \in DOMAIN websockets THEN DictValues(websockets[r]) ELSE {}

\* C1: last writer wins with a guarded leave.  A join maps the identity to
\* the joining socket, and the mapping of an identity is dropped or changed
\* only by a join under that identity or by the removal of the very socket
\* it points at: taking another socket out of the registry leaves it alone.
C1_GuardedLeave ==
    [][ /\ last'.op = "connect" =>
              /\ username'[last'.h] \in DOMAIN usernames_to_websockets'
              /\ usernames_to_websockets'[username'[last'.h]] = last'.h
        /\ \A u \in DOMAIN usernames_to_websockets :
              LET h2 == usernames_to_websockets[u]
                  kept == UNION {DictKeys(websockets'[r]) : r \in DOMAIN websockets'}
              IN (h2 \in kept /\ ~(last'.op = "connect" /\ username'[last'.h] = u))
                    => /\ u \in DOMAIN usernames_to_websockets'
                       /\ usernames_to_websockets'[u] = h2
      ]_vars

\* C2: whatever ends a session that was Active, the loop has called
\* disconnect for it: once the endpoint has ended, its socket is in no room
\* and no identity maps to it.
C2_LeaveOnTermination ==
    \A h \in Handles :
        pc[h] \in {"closed", "crashed"} => (h \notin Members /\ h \notin Resolved)

\* C3: once the endpoint of a socket has processed its disconnect, no
\* delivery call sends on that socket again.
C3_NoSendAfterLeave ==
    [][ \A t \in last'.to : pc[t] # "closed" ]_vars

\* C4: a frame that fails to decode gets one error reply on the same
\* connection and the session goes on, registered as before: while the peer
\* is there to take the reply, a decode failure never ends the session.
C4_DecodeFailureReplied ==
    [][ (last'.op = "decode" /\ alive[last'.h]) =>
            /\ last'.replied = "sent"
            /\ pc'[last'.h] = "receive"
            /\ websockets' = websockets
            /\ usernames_to_websockets' = usernames_to_websockets
      ]_vars

\* C5: an envelope of unknown type is answered with an error reply to its
\* sender; nothing is delivered to anyone and the session goes on.
C5_UnknownTypeReplied ==
    last.op = "ignore" =>
        (last.replied = "sent" /\ last.to = {} /\ pc[last.h] = "receive")

\* C6: a private send that passed its checks and failed at the transport
\* reaps the socket it sent to, whatever room that socket joined: afterwards
\* the socket is in no room and its recipient no longer resolves to it, and
\* the call reports the recipient unreachable (either of the two texts of
\* lines 56 and 61).
C6_FailedPrivateReaps ==
    (last.op = "private" /\ ~last.ok /\ last.to # {}) =>
        /\ last.kind \in {"RecipientOffline", "SendError"}
        /\ last.to \cap Members = {}
        /\ last.to \cap resolve(registry, last.recipient) = {}

\* C7: invariant I2.  Whatever joins, leaves, broadcasts and private sends
\* (failing and reaping ones too) have run, an identity maps only to a socket
\* that is registered in some room under that identity.
C7_IdentityRegistered ==
    \A u \in DOMAIN usernames_to_websockets :
        \E r \in DOMAIN websockets :
            /\ usernames_to_websockets[u] \in DictKeys(websockets[r])
            /\ DictGet(websockets[r], usernames_to_websockets[u]) = u

\* A failed send has just reaped its target while another identity is mapped.
C7_Witness ==
    /\ last.op \in {"broadcast", "private"}
    /\ ~last.ok
    /\ last.to # {}
    /\ last.to \cap Members = {}
    /\ DOMAIN usernames_to_websockets # {}

\* C8: invariant I3.  After every step each room key has at least one
\* member (the leave or reaping that takes the last one deletes the key),
\* and a room key appears only by a join, holding the joining socket alone.
C8_NoEmptyRoom ==
    [][ /\ \A r \in DOMAIN websockets' : websockets'[r] # << >>
        /\ \A r \in (DOMAIN websockets') \ (DOMAIN websockets) :
              /\ last'.op = "connect"
              /\ websockets'[r] = << Entry(last'.h, username'[last'.h]) >>
      ]_vars

\* A socket joins a room whose only member had left before: the room is
\* there again with the newcomer alone.
C8_Witness ==
    /\ last.op = "connect"
    /\ \E h \in Handles \ {last.h} : pc[h] = "closed" /\ room[h] = room[last.h]
    /\ room[last.h] \in DOMAIN websockets
    /\ websockets[room[last.h]] = << Entry(last.h, username[last.h]) >>

\* C9 as claimed: a private send returns NotInRoom and sends nothing
\* whenever the sender's or the recipient's identity is not a member of the
\* room.
C9_NotInRoom ==
    [][ last'.op = "private" =>
            LET h == last'.h
            IN (username[h] \notin NamesIn(room[h]) \/ last'.recipient \notin NamesIn(room[h]))
                   => (last'.kind = "NotInRoom" /\ last'.to = {})
      ]_vars

\* C9 as amended: in a room that has members, a private send returns
\* NotInRoom and sends nothing whenever the sender's or the recipient's
\* identity is not among them, even if the recipient resolves to a live
\* socket; when the room has no members at all it returns RoomNotFound,
\* again sending nothing.
C9_NotInRoomOrRoomNotFound ==
    [][ last'.op = "private" =>
            LET h == last'.h
            IN /\ room[h] \notin DOMAIN websockets
                     => (last'.kind = "RoomNotFound" /\ last'.to = {})
               /\ (/\ room[h] \in DOMAIN websockets
                   /\ \/ username[h] \notin NamesIn(room[h])
                      \/ last'.recipient \notin NamesIn(room[h]))
                     => (last'.kind = "NotInRoom" /\ last'.to = {})
      ]_vars

\* A private send was refused with NotInRoom although its recipient
\* resolves to a live socket, which sits in another room.
C9_Witness ==
    /\ last.op = "private"
    /\ last.kind = "NotInRoom"
    /\ last.replied = "sent"
    /\ \E t \in resolve(registry, last.recipient) : alive[t] /\ room[t] # room[last.h]

\* C10: a private envelope to carol, who never joined, is answered to the
\* sender with an error reply of kind RecipientOffline; nobody else is sent
\* anything and the session goes on.
C10_NeverJoinedIsOffline ==
    (last.op = "private" /\ last.recipient = "carol" /\ last.replied = "sent") =>
        (last.kind = "RecipientOffline" /\ last.to = {} /\ pc[last.h] = "receive")

\* C11: broadcast reaping.  When a send of a broadcast fails, the call has
\* taken the socket out of the registry by the time it returns: the socket
\* is a member of no room (its room included), no identity resolves to it,
\* and its room is gone if it was the last member.
C11_BroadcastReaps ==
    (last.op = "broadcast" /\ ~last.ok /\ last.to # {}) =>
        /\ last.to \cap Members = {}
        /\ last.to \cap Resolved = {}
        /\ room[last.h] \in DOMAIN websockets =>
              /\ websockets[room[last.h]] # << >>
              /\ last.to \cap DictKeys(websockets[room[last.h]]) = {}

\* A broadcast failed on a socket other than the sender's, which was the
\* last member of the room or not.
C11_Witness ==
    /\ last.op = "broadcast"
    /\ ~last.ok
    /\ last.to # {}
    /\ last.h \notin last.to
    /\ \A t \in last.to : room[t] = room[last.h] /\ pc[t] \in Active

\* The list iterated by the broadcast call that the next broadcast step of
\* endpoint h belongs to: the one the call in flight took, or the one a new
\* call takes now.
Snap(h) == IF pc[h] = "broadcast" THEN snapshot[h] ELSE keys(registry, room[h])

\* How many sockets of that list the call has served already.
Served(h) == IF pc[h] = "broadcast" THEN Len(snapshot[h]) - Len(sockets[h]) ELSE 0

\* C12: outcome of a broadcast.  A broadcast call returns success only from
\* the last socket of the list it iterates and only if that send succeeded;
\* a send that fails ends the call at once with an unsuccessful outcome (so
\* a call that got to its last socket had every earlier send succeed), and
\* a call for a room that does not exist returns an unsuccessful outcome
\* without sending.
C12_BroadcastOutcome ==
    [][ last'.op \in {"broadcast", "broadcast_send"} =>
            LET h == last'.h
            IN /\ (pc[h] = "receive" /\ room[h] \notin DOMAIN websockets)
                     => (last'.op = "broadcast" /\ ~last'.ok /\ last'.to = {})
               /\ ~(last'.to \subseteq Up)
                     => (last'.op = "broadcast" /\ ~last'.ok)
               /\ (last'.op = "broadcast" /\ last'.ok)
                     => /\ last'.to \subseteq Up
                        /\ Served(h) + 1 = Len(Snap(h))
                        /\ last'.to = {Snap(h)[Len(Snap(h))]}
      ]_vars

\* A broadcast in a room of two returned success to a sender that is not
\* the last of the list.
C12_Witness ==
    /\ last.op = "broadcast"
    /\ last.ok
    /\ last.h \notin last.to
    /\ room[last.h] \in DOMAIN websockets
    /\ Len(websockets[room[last.h]]) >= 2

\* C13: fan-out without failures.  Each step of a broadcast call whose send
\* succeeds sends to exactly one socket, the next of the list taken when the
\* call began (the members of the room then, the sender's own socket among
\* them, all of them sockets that joined this room); the call goes on to the
\* following socket while there is one and returns success after the last.
C13_FanOut ==
    [][ (/\ last'.op \in {"broadcast", "broadcast_send"}
         /\ last'.to \subseteq Up
         /\ pc[last'.h] = "receive" => room[last'.h] \in DOMAIN websockets) =>
            LET h == last'.h
                snap == Snap(h)
                i == Served(h)
            IN /\ last'.to = {snap[i + 1]}
               /\ \A j \in 1..Len(snap) : room[snap[j]] = room[h]
               /\ \A j, k \in 1..Len(snap) : snap[j] = snap[k] => j = k
               /\ (pc[h] = "receive" /\ h \in DictKeys(websockets[room[h]]))
                     => \E j \in 1..Len(snap) : snap[j] = h
               /\ i + 1 < Len(snap)
                     => /\ pc'[h] = "broadcast"
                        /\ snapshot'[h] = snap
                        /\ sockets'[h] = SubSeq(snap, i + 2, Len(snap))
               /\ i + 1 = Len(snap)
                     => /\ last'.op = "broadcast"
                        /\ last'.ok
                        /\ pc'[h] = "receive"
      ]_vars

\* A broadcast in a room of two ended with the send to the sender itself.
C13_Witness ==
    /\ last.op = "broadcast"
    /\ last.ok
    /\ last.to = {last.h}
    /\ room[last.h] \in DOMAIN websockets
    /\ Len(websockets[room[last.h]]) >= 2

\* C17: early abort.  The step of a broadcast call whose send fails sends to
\* that one socket only, takes it out of the registry and ends the call with
\* an unsuccessful outcome: nothing of the list is left to serve.  Apart from
\* it only the sender's own socket may go (when its error reply fails), and
\* a step whose send succeeds takes nothing out.
C17_EarlyAbort ==
    [][ last'.op \in {"broadcast", "broadcast_send"} =>
            LET h == last'.h
            IN /\ last'.op = "broadcast_send" => Members' = Members
               /\ ~(last'.to \subseteq Up)
                     => /\ last'.to = {Snap(h)[Served(h) + 1]}
                        /\ last'.op = "broadcast"
                        /\ ~last'.ok
                        /\ pc'[h] # "broadcast"
                        /\ sockets'[h] = << >>
                        /\ last'.to \cap Members' = {}
                        /\ Members \ Members' \subseteq
                              last'.to \cup (IF last'.replied = "failed" THEN {h} ELSE {})
      ]_vars

\* A broadcast failed on the first socket of its list and never got to the
\* sender's own socket, which comes after it and stays a member.
C17_Witness ==
    /\ last.op = "broadcast"
    /\ ~last.ok
    /\ \E t \in last.to : t < last.h
    /\ last.h \in Members
    /\ alive[last.h]

\* C14: the rendered line.  Whenever a chat message is passed to send_text,
\* by a broadcast or by a private send, its text is the sender's identity,
\* ": " and the data of the envelope, with nothing before and nothing after.
C14_RenderedLine ==
    last.to # {} => wire.text = username[last.h] \o ": " \o wire.data

\* C15: a handshake whose Authorization header is missing, is not a bearer
\* header, or carries a token that does not verify, names no user or names
\* somebody who is not an active user, is rejected: the attempt ends there
\* with both registry maps as they were, the socket is never registered,
\* never served and never leaves the rejected state.
C15_RejectedHandshake ==
    [][ /\ (/\ last'.op \in {"connect", "reject"}
            /\ \/ offered'.scheme # "bearer"
               \/ ~offered'.token.valid
               \/ offered'.token.username \notin Users)
              => /\ last'.op = "reject"
                 /\ pc'[last'.h] = "rejected"
                 /\ ~alive'[last'.h]
                 /\ websockets' = websockets
                 /\ usernames_to_websockets' = usernames_to_websockets
        /\ \A h \in Handles :
              pc[h] = "rejected"
                 => (pc'[h] = "rejected" /\ h \notin Members' /\ h \notin Resolved')
      ]_vars

\* A bearer token that verifies but names carol, who is no user, has just
\* been turned away while others are registered.
C15_Witness ==
    /\ last.op = "reject"
    /\ offered.scheme = "bearer"
    /\ offered.token.valid
    /\ offered.token.username = "carol"
    /\ Members # {}

\* C16: leave is idempotent.  In every registry the program gets into, for
\* every socket and room, a second disconnect right after the first changes
\* nothing more, and a disconnect of a socket that is not in the room, or
\* for a room that is not there, changes nothing at all.
C16_LeaveIdempotent ==
    \A h \in Handles, r \in Rooms :
        LET once == disconnect(registry, h, r)
        IN /\ disconnect(once, h, r) = once
           /\ (r \notin DOMAIN websockets \/ h \notin DictKeys(websockets[r]))
                 => once = registry

\* A failed send has reaped a socket whose own endpoint, its peer gone, is
\* about to call disconnect for it a second time, with others registered.
C16_Witness ==
    /\ last.op \in {"broadcast", "private"}
    /\ ~last.ok
    /\ \E t \in last.to :
          /\ t \notin Members
          /\ pc[t] = "receive"
          /\ ~alive[t]
          /\ inbox[t] = 0
    /\ Members # {}

\* C18: room isolation of private delivery.  A private send goes only to a
\* socket that joined the sender's room under the recipient's identity, also
\* when an identity has live connections in several rooms.
C18_PrivateRoomIsolation ==
    (last.op = "private" /\ last.to # {}) =>
        \A t \in last.to : room[t] = room[last.h] /\ username[t] = last.recipient

\* C19: routing errors without a send fault.  A delivery call that returns
\* RoomNotFound, NotInRoom, or RecipientOffline for a recipient that
\* resolves to nothing, has called send_text with no chat message and has
\* changed neither registry map; if anything changes in that turn it is the
\* endpoint's own disconnect after its error reply failed.
C19_RoutingErrorNoEffect ==
    [][ (/\ last'.op \in {"broadcast", "private"}
         /\ \/ last'.kind \in {"RoomNotFound", "NotInRoom"}
            \/ last'.kind = "RecipientOffline" /\ resolve(registry, last'.recipient) = {}) =>
            /\ ~last'.ok
            /\ last'.to = {}
            /\ wire' = NoMessage
            /\ last'.replied = "sent" =>
                  /\ websockets' = websockets
                  /\ usernames_to_websockets' = usernames_to_websockets
            /\ last'.replied = "failed" =>
                  registry' \in {registry, disconnect(registry, last'.h, room[last'.h])}
      ]_vars

\* A private send to a member of the room whose identity resolves to nothing
\* was answered with RecipientOffline.
C19_Witness ==
    /\ last.op = "private"
    /\ last.kind = "RecipientOffline"
    /\ last.to = {}
    /\ last.replied = "sent"
    /\ last.recipient \in NamesIn(room[last.h])

\* C20: failure containment.  When a send to a socket fails during a
\* broadcast or private send that a different, live connection started, only
\* that socket's entries go: every other socket keeps its room membership
\* and every identity that resolved to another socket still resolves to it;
\* the sender's session goes on and it is told by an error reply.
C20_FailureContained ==
    [][ (/\ last'.op \in {"broadcast", "private"}
         /\ ~last'.ok
         /\ last'.to # {}
         /\ last'.h \notin last'.to
         /\ alive[last'.h]) =>
            /\ \A t \in Handles \ last'.to :
                  /\ t \in Members => t \in Members'
                  /\ \A u \in DOMAIN usernames_to_websockets :
                        usernames_to_websockets[u] = t
                           => /\ u \in DOMAIN usernames_to_websockets'
                              /\ usernames_to_websockets'[u] = t
            /\ pc'[last'.h] = "receive"
            /\ last'.replied = "sent"
      ]_vars

====
